---- MODULE Spec2Model ----
(***************************************************************************)
(* A model of aiosignalrcore's SignalRClient (client.py) and of its JSON    *)
(* protocol object (protocol/json.py).  Of the client: the handler list,   *)
(* the invocation/stream registry, the error-callback slot and the         *)
(* dispatch of inbound hub messages, with the suspension points of the     *)
(* coroutines (an awaited event handler, the awaited error callback) as    *)
(* separate steps so that API calls can interleave with a dispatch.  Of    *)
(* the protocol object: the splitting and parsing of a payload and the     *)
(* encoding of a message, over payloads kept as sequences of segments.     *)
(*                                                                         *)
(* User callbacks are environment: a callback is recorded in `calls` when  *)
(* it is called (and, for an awaited one, when it returns) and is assumed  *)
(* to return normally; what it does while it runs is any interleaving of   *)
(* the API actions.                                                        *)
(***************************************************************************)
EXTENDS Integers, Sequences, FiniteSets, TLC

(* ---------------------------- bounds ----------------------------------- *)
MaxMsgs == 3        \* inbound messages delivered by the transport
MaxHandlers == 3    \* registrations made with on()
MaxSent == 3        \* outbound messages handed to the transport
MaxPayload == 3     \* segments of one inbound payload

(* ---------------------------- values ----------------------------------- *)
None == "None"
Ids == {"a", "b"}                  \* the strings str(uuid.uuid4()) can return
NoId == None
Targets == {"Foo", "Bar"}          \* event names
Methods == {"Send"}                \* hub methods the caller invokes
Arguments == {"args1", "args2"}
Items == {"x", "y"}
Errors == {"boom"}
NoCallback == 0
ErrorCallbacks == {1, 2}     \* the callables a caller passes to on_error
ResultCallbacks == {1}       \* the callables a caller passes as on_invocation

(* ---------------------------- messages --------------------------------- *)
Msg(t, i, tg, a, it, e) ==
    [type |-> t, invocation_id |-> i, target |-> tg, arguments |-> a,
     item |-> it, error |-> e]

InvocationMessage(i, tg, a) == Msg("Invocation", i, tg, a, None, None)
StreamInvocationMessage(i, tg, a) == Msg("StreamInvocation", i, tg, a, None, None)
StreamItemMessage(i, it) == Msg("StreamItem", i, None, None, it, None)
CompletionMessage(i, e) == Msg("Completion", i, None, None, None, e)
CancelInvocationMessage(i) == Msg("CancelInvocation", i, None, None, None, None)
PingMessage == Msg("Ping", NoId, None, None, None, None)
CloseMessage(e) == Msg("Close", NoId, None, None, None, e)
NoMessage == Msg(None, NoId, None, None, None, None)

\* What the server may deliver.
Inbound ==
    {InvocationMessage(NoId, tg, a) : tg \in Targets, a \in Arguments}
    \cup {StreamItemMessage(i, it) : i \in Ids, it \in Items}
    \cup {CompletionMessage(i, e) : i \in Ids, e \in Errors \cup {None}}
    \cup {CancelInvocationMessage(i) : i \in Ids}
    \cup {CloseMessage(e) : e \in Errors \cup {None}}
    \cup {PingMessage}
    \cup {StreamInvocationMessage("a", "Foo", "args1")}

(* ---------------------------- JSON ------------------------------------- *)
\* MessageType(...).value: the integer the wire carries for a message type.
MessageType(t) ==
    CASE t = "Invocation" -> 1
      [] t = "StreamItem" -> 2
      [] t = "Completion" -> 3
      [] t = "StreamInvocation" -> 4
      [] t = "CancelInvocation" -> 5
      [] t = "Ping" -> 6
      [] t = "Close" -> 7

MessageTypes ==
    {"Invocation", "StreamItem", "Completion", "StreamInvocation",
     "CancelInvocation", "Ping", "Close"}

\* A JSON object as json.loads returns it: the keys it has, and the value
\* under each (None, and 0 for type, under a key it does not have).
JsonObject(keys, type, i, tg, a, it, e) ==
    [json |-> "object", keys |-> keys, type |-> type, invocationId |-> i,
     target |-> tg, arguments |-> a, item |-> it, error |-> e]

\* The JSON text `null`, which json.loads turns into None.
JsonNull ==
    [json |-> "null", keys |-> {}, type |-> 0, invocationId |-> None,
     target |-> None, arguments |-> None, item |-> None, error |-> None]

\* The JSON text `{}`.
EmptyObject == JsonObject({}, 0, None, None, None, None, None)

\* bool(value): an empty dict and None are false.
Truthy(v) == v.json = "object" /\ v.keys # {}

\* Message.dump: the dict of the message, its type as the integer code, a
\* field under its wire name when it is set.
Dump(m) ==
    JsonObject({"type"}
                 \cup (IF m.invocation_id # None THEN {"invocationId"} ELSE {})
                 \cup (IF m.target # None THEN {"target"} ELSE {})
                 \cup (IF m.arguments # None THEN {"arguments"} ELSE {})
                 \cup (IF m.item # None THEN {"item"} ELSE {})
                 \cup (IF m.error # None THEN {"error"} ELSE {}),
               MessageType(m.type), m.invocation_id, m.target, m.arguments,
               m.item, m.error)

\* dict.get(key): the value under key, None when the key is absent.
Get(d, key) == IF key \in d.keys THEN d[key] ELSE None

\* What a call returns, or the exception it raises.
Returned(messages) == [ok |-> TRUE, exception |-> None, messages |-> messages]
Raised(exception) == [ok |-> FALSE, exception |-> exception, messages |-> <<>>]

\* Protocol.parse_message: the Message variant named by the integer under
\* "type", built from the keys of that variant.
parse_message(d) ==
    IF d.json # "object" \/ "type" \notin d.keys
          \/ d.type \notin {MessageType(t) : t \in MessageTypes}
    THEN Raised("ProtocolDecodeError")
    ELSE LET t == CHOOSE t \in MessageTypes : MessageType(t) = d.type IN
         Returned(<<CASE t = "Invocation" ->
                           InvocationMessage(Get(d, "invocationId"),
                                             Get(d, "target"), Get(d, "arguments"))
                      [] t = "StreamInvocation" ->
                           StreamInvocationMessage(Get(d, "invocationId"),
                                                   Get(d, "target"), Get(d, "arguments"))
                      [] t = "StreamItem" ->
                           StreamItemMessage(Get(d, "invocationId"), Get(d, "item"))
                      [] t = "Completion" ->
                           CompletionMessage(Get(d, "invocationId"), Get(d, "error"))
                      [] t = "CancelInvocation" ->
                           CancelInvocationMessage(Get(d, "invocationId"))
                      [] t = "Ping" -> PingMessage
                      [] t = "Close" -> CloseMessage(Get(d, "error"))>>)

(* ---------------------------- the wire --------------------------------- *)
\* A payload is a string, kept here as the sequence of its segments: a
\* separator character, the text of one JSON value, or text that is no JSON.
record_separator == [ch |-> "RS", v |-> JsonNull]     \* chr(0x1E)
Junk == [ch |-> "junk", v |-> JsonNull]
Text(v) == [ch |-> "text", v |-> v]

\* JSONEncoder.encode: the text of a value. It never holds a raw separator:
\* the encoder escapes control characters inside strings.
json_dumps(v) == <<Text(v)>>

\* json.loads: the value of a string that is exactly one JSON text;
\* anything else (no JSON, or text after the value) is a JSONDecodeError.
json_loads(item) ==
    IF Len(item) = 1 /\ item[1].ch = "text"
    THEN [ok |-> TRUE, v |-> item[1].v]
    ELSE [ok |-> FALSE, v |-> JsonNull]

\* str.split(separator): the pieces between separators, empty ones
\* included; the last piece is what follows the last separator.
RECURSIVE Split(_)
Split(raw) ==
    IF \A k \in DOMAIN raw : raw[k] # record_separator
    THEN <<raw>>
    ELSE LET k == CHOOSE k \in DOMAIN raw :
                      /\ raw[k] = record_separator
                      /\ \A j \in 1..(k - 1) : raw[j] # record_separator
         IN <<SubSeq(raw, 1, k - 1)>> \o Split(SubSeq(raw, k + 1, Len(raw)))

\* record.replace(self.record_separator, "")
Replace(record) == SelectSeq(record, LAMBDA c : c # record_separator)

\* The list comprehension of parse_raw_message.
RawMessages(raw) ==
    LET kept == SelectSeq(Split(raw),
                          LAMBDA record : record # <<>>
                                          /\ record # <<record_separator>>)
    IN [k \in DOMAIN kept |-> Replace(kept[k])]

\* `if dict_message:`
Skips(dict_message) == Truthy(dict_message)

\* The for loop of parse_raw_message.
RECURSIVE ParseLoop(_, _)
ParseLoop(raw_messages, result) ==
    IF raw_messages = <<>> THEN Returned(result)
    ELSE LET dict_message == json_loads(Head(raw_messages)) IN
         IF ~dict_message.ok THEN Raised("JSONDecodeError")
         ELSE IF Skips(dict_message.v)
              THEN LET message == parse_message(dict_message.v) IN
                   IF ~message.ok THEN message
                   ELSE ParseLoop(Tail(raw_messages), result \o message.messages)
              ELSE ParseLoop(Tail(raw_messages), result)

\* JsonProtocol.parse_raw_message
parse_raw_message(raw) == ParseLoop(RawMessages(raw), <<>>)

\* The separator is left out.
encode_Bare(message) == json_dumps(Dump(message))

\* JsonProtocol.encode
encode(message) == json_dumps(Dump(message)) \o <<record_separator>>

(* ---------------------------- state ------------------------------------ *)
VARIABLES
    handlers,         \* self._handlers: <<event, callback>> in registration order
    stream_handlers,  \* self._stream_handlers: InvocationHandler / StreamHandler
    error_callback,   \* self._error_callback
    sent,             \* messages handed to the transport, in order
    issued,           \* ids uuid4 has produced so far
    scopes,           \* client_stream scopes: id -> "open" | "completed" | "raised"
    status,           \* "running", or "failed" once a dispatch has raised
    raised,           \* the exception run() ended with
    pc,               \* where the dispatch coroutine is suspended
    cur,              \* the message being dispatched (the last one, when idle)
    fired,            \* fired_handlers of _on_invocation_message
    idx,              \* position of the running handler in fired
    calls,            \* every callback call and awaited return, in order
    nmsgs,            \* inbound messages taken from the transport
    mark,             \* Len(calls) when the dispatch of cur began
    known,            \* Len(handlers) when the dispatch of cur began
    pending,          \* Len(stream_handlers) when the dispatch of cur began
    last_on_error,    \* the argument of the latest on_error call
    raw_message,      \* the payload last given to parse_raw_message
    parsed,           \* what parse_raw_message made of raw_message
    outgoing,         \* the message last given to encode
    wire              \* what encode returned for outgoing

vars == <<handlers, stream_handlers, error_callback, sent, issued, scopes,
          status, raised, pc, cur, fired, idx, calls, nmsgs, mark, known,
          pending, last_on_error, raw_message, parsed, outgoing, wire>>

dispatch == <<status, raised, pc, cur, fired, idx, calls, nmsgs, mark, known,
              pending>>

\* The state of the protocol object's callers (JsonProtocol itself has none).
codec == <<raw_message, parsed, outgoing, wire>>

NoException == [type |-> None, error |-> None]

Init ==
    /\ handlers = <<>>
    /\ stream_handlers = <<>>
    /\ error_callback = NoCallback
    /\ sent = <<>>
    /\ issued = {}
    /\ scopes = [i \in Ids |-> "none"]
    /\ status = "running"
    /\ raised = NoException
    /\ pc = "idle"
    /\ cur = NoMessage
    /\ fired = <<>>
    /\ idx = 0
    /\ calls = <<>>
    /\ nmsgs = 0
    /\ mark = 0
    /\ known = 0
    /\ pending = 0
    /\ last_on_error = NoCallback
    /\ raw_message = <<>>
    /\ parsed = Returned(<<>>)
    /\ outgoing = NoMessage
    /\ wire = <<>>

(* ---------------------------- registry entries ------------------------- *)
\* handlers.InvocationHandler(invocation_id, complete_callback)
InvocationHandler(i, cb) ==
    [kind |-> "InvocationHandler", event |-> None, invocation_id |-> i,
     callback |-> cb]

\* handlers.StreamHandler(event, invocation_id); its three callbacks belong to
\* the handler object, which the id identifies.
StreamHandler(event, i) ==
    [kind |-> "StreamHandler", event |-> event, invocation_id |-> i,
     callback |-> NoCallback]

(* ---------------------------- the call log ----------------------------- *)
\* One entry per callback call (ev = "call") and per return of an awaited
\* callback (ev = "return"), with the argument or the message it was given.
Ev(fn, owner, cb, ev, arg, msg) ==
    [fn |-> fn, owner |-> owner, cb |-> cb, ev |-> ev, arg |-> arg, msg |-> msg]

\* await handler(message.arguments), and its return
HandlerCall(h, m) == Ev("handler", None, h[2], "call", m.arguments, NoMessage)
HandlerReturnEv(h) == Ev("handler", None, h[2], "return", None, NoMessage)
\* await self._error_callback(message), and its return
ErrorCallbackCall(cb, m) == Ev("on_error", None, cb, "call", None, m)
ErrorCallbackReturnEv(cb, m) == Ev("on_error", None, cb, "return", None, m)

\* stream_handler.complete_callback(message)
CompleteCall(h, m) ==
    IF h.kind = "InvocationHandler"
    THEN Ev("on_invocation", None, h.callback, "call", None, m)
    ELSE Ev("complete_callback", h.invocation_id, NoCallback, "call", None, m)
\* handler.next_callback(message.item)
NextCall(h, m) ==
    Ev("next_callback", h.invocation_id, NoCallback, "call", m.item, NoMessage)
\* The wrong callback of the subscription is called.
ErrorCall_Complete(h, m) == CompleteCall(h, m)

\* handler.error_callback(message)
ErrorCall(h, m) ==
    Ev("error_callback", h.invocation_id, NoCallback, "call", None, m)

RECURSIVE MapSeq(_, _)
MapSeq(F(_), s) == IF s = <<>> THEN <<>> ELSE <<F(Head(s))>> \o MapSeq(F, Tail(s))

(* ---------------------------- filters ---------------------------------- *)
\* The target filter dropped: every handler fires.
FiredHandlers_All(hs, target) == hs

\* list(filter(lambda h: h[0] == message.target, self._handlers))
FiredHandlers(hs, target) == SelectSeq(hs, LAMBDA h : h[1] = target)

\* The id filter dropped: every entry fires.
FiredStreamHandlers_All(shs, i) == shs

\* list(filter(lambda h: h.invocation_id == message.invocation_id, ...))
FiredStreamHandlers(shs, i) == SelectSeq(shs, LAMBDA h : h.invocation_id = i)

\* The entry is left in the registry.
Unregister_Keep(shs, i) == shs

\* The registry is emptied.
Unregister_All(shs, i) == <<>>

\* The registry is rebuilt from what it held when the dispatch began.
Unregister_Stale(shs, i) ==
    SelectSeq(SubSeq(shs, 1, pending'), LAMBDA h : h.invocation_id # i)

\* list(filter(lambda h: h.invocation_id != message.invocation_id, ...))
Unregister(shs, i) == SelectSeq(shs, LAMBDA h : h.invocation_id # i)

\* An identifier may come out a second time.
uuid4_Repeats == Ids

\* str(uuid.uuid4()): a random identifier, distinct from every one produced
\* before.
uuid4 == Ids \ issued

(* ---------------------------- API -------------------------------------- *)
\* SignalRClient.on
on(event, callback) ==
    /\ Len(handlers) < MaxHandlers
    /\ handlers' = Append(handlers, <<event, callback>>)
    /\ UNCHANGED <<stream_handlers, error_callback, last_on_error, codec,
                   sent, issued, scopes>>
    /\ UNCHANGED dispatch

\* The first callback registered keeps the slot.
on_error_FirstWins(callback) ==
    /\ error_callback' =
          IF error_callback = NoCallback THEN callback ELSE error_callback
    /\ last_on_error' = callback
    /\ UNCHANGED <<handlers, stream_handlers, sent, issued, scopes>>
    /\ UNCHANGED codec
    /\ UNCHANGED dispatch

\* SignalRClient.on_error
on_error(callback) ==
    /\ error_callback' = callback
    /\ last_on_error' = callback
    /\ UNCHANGED <<handlers, stream_handlers, sent, issued, scopes>>
    /\ UNCHANGED codec
    /\ UNCHANGED dispatch

\* An entry is registered whether or not a callback was given.
send_Track(method, arguments, on_invocation) ==
    /\ status = "running"
    /\ \E i \in uuid4 :
        LET message == InvocationMessage(i, method, arguments) IN
        /\ issued' = issued \cup {i}
        /\ stream_handlers' =
              Append(stream_handlers,
                     InvocationHandler(message.invocation_id, on_invocation))
        /\ sent' = Append(sent, message)
    /\ UNCHANGED <<handlers, error_callback, last_on_error, codec, scopes>>
    /\ UNCHANGED dispatch

\* SignalRClient.send
send(method, arguments, on_invocation) ==
    /\ status = "running"
    /\ \E i \in uuid4 :
        LET message == InvocationMessage(i, method, arguments) IN
        /\ issued' = issued \cup {i}
        /\ stream_handlers' =
              IF on_invocation # NoCallback
              THEN Append(stream_handlers,
                          InvocationHandler(message.invocation_id, on_invocation))
              ELSE stream_handlers
        /\ sent' = Append(sent, message)
    /\ UNCHANGED <<handlers, error_callback, last_on_error, codec, scopes>>
    /\ UNCHANGED dispatch

\* SignalRClient.stream
stream(event, event_params) ==
    /\ status = "running"
    /\ \E invocation_id \in uuid4 :
        /\ issued' = issued \cup {invocation_id}
        /\ stream_handlers' =
              Append(stream_handlers, StreamHandler(event, invocation_id))
        /\ sent' = Append(sent,
                          StreamInvocationMessage(invocation_id, event, event_params))
    /\ UNCHANGED <<handlers, error_callback, last_on_error, codec, scopes>>
    /\ UNCHANGED dispatch

(* ---------------------------- dispatch --------------------------------- *)
\* The transport hands the next decoded message to _on_message; one message
\* is dispatched to the end before the next is taken.
Take(m) ==
    /\ status = "running"
    /\ pc = "idle"
    /\ nmsgs < MaxMsgs
    /\ m \in Inbound
    /\ cur' = m
    /\ nmsgs' = nmsgs + 1
    /\ mark' = Len(calls)
    /\ known' = Len(handlers)
    /\ pending' = Len(stream_handlers)

Raise(type, error) ==
    /\ status' = "failed"
    /\ raised' = [type |-> type, error |-> error]
    /\ pc' = "idle"

Return ==
    /\ pc' = "idle"
    /\ UNCHANGED <<status, raised>>

\* A Ping falls through to the final else of _on_message.
OnPing_Unhandled(m) ==
    /\ m.type = "Ping"
    /\ Take(m)
    /\ Raise("NotImplementedError", None)
    /\ UNCHANGED <<handlers, stream_handlers, error_callback, last_on_error,
                   codec, sent, issued, scopes, fired, idx, calls>>

\* _on_message: isinstance(message, PingMessage) -> pass
OnPing(m) ==
    /\ m.type = "Ping"
    /\ Take(m)
    /\ Return
    /\ UNCHANGED <<handlers, stream_handlers, error_callback, last_on_error, codec,
                   sent, issued,
                   scopes, fired, idx, calls>>

\* _on_message: isinstance(message, StreamInvocationMessage) -> pass
OnStreamInvocation(m) ==
    /\ m.type = "StreamInvocation"
    /\ Take(m)
    /\ Return
    /\ UNCHANGED <<handlers, stream_handlers, error_callback, last_on_error, codec,
                   sent, issued,
                   scopes, fired, idx, calls>>

\* The loop walks the live handler list instead of the snapshot.
IterationList_Live == FiredHandlers(handlers, cur.target)

\* The list the for loop of _on_invocation_message walks.
IterationList == fired

\* _on_invocation_message up to its first suspension: the snapshot, the
\* warning when it is empty, otherwise the call of the first handler.
OnInvocation(m) ==
    /\ m.type = "Invocation"
    /\ Take(m)
    /\ LET fired_handlers == FiredHandlers(handlers, m.target) IN
       IF Len(fired_handlers) = 0
       THEN /\ Return
            /\ UNCHANGED <<fired, idx, calls>>
       ELSE /\ fired' = fired_handlers
            /\ idx' = 1
            /\ calls' = Append(calls, HandlerCall(fired_handlers[1], m))
            /\ pc' = "handler"
            /\ UNCHANGED <<status, raised>>
    /\ UNCHANGED <<handlers, stream_handlers, error_callback, last_on_error, codec,
                   sent, issued, scopes>>

\* await handler(message.arguments) returns: the loop calls the next handler
\* or ends.
HandlerReturn ==
    /\ pc = "handler"
    /\ UNCHANGED <<cur, nmsgs, mark, known, pending>>
    /\ LET returned == Append(calls, HandlerReturnEv(fired[idx])) IN
       IF idx < Len(IterationList)
       THEN /\ idx' = idx + 1
            /\ calls' = Append(returned, HandlerCall(IterationList[idx + 1], cur))
            /\ UNCHANGED <<fired, pc, status, raised>>
       ELSE /\ idx' = 0
            /\ fired' = <<>>
            /\ calls' = returned
            /\ Return
    /\ UNCHANGED <<handlers, stream_handlers, error_callback, last_on_error, codec,
                   sent, issued, scopes>>

\* A Completion with error completes no entry.
CompletionTail_ErrorSkips(m, log) ==
    LET fired_stream_handlers ==
            IF m.error # None THEN <<>>
            ELSE FiredStreamHandlers(stream_handlers, m.invocation_id) IN
    /\ calls' = log \o MapSeq(LAMBDA h : CompleteCall(h, m), fired_stream_handlers)
    /\ stream_handlers' = Unregister(stream_handlers, m.invocation_id)
    /\ Return

\* _on_completion_message after the error branch: call complete_callback of
\* every matching entry, then unregister the id.
CompletionTail(m, log) ==
    LET fired_stream_handlers == FiredStreamHandlers(stream_handlers, m.invocation_id) IN
    /\ calls' = log \o MapSeq(LAMBDA h : CompleteCall(h, m), fired_stream_handlers)
    /\ stream_handlers' = Unregister(stream_handlers, m.invocation_id)
    /\ Return

\* _on_completion_message up to its first suspension.
OnCompletion(m) ==
    /\ m.type = "Completion"
    /\ Take(m)
    /\ IF m.error # None
       THEN IF error_callback = NoCallback
            THEN /\ Raise("Exception", None)
                 /\ UNCHANGED <<stream_handlers, calls>>
            ELSE /\ calls' = Append(calls, ErrorCallbackCall(error_callback, m))
                 /\ pc' = "error_callback"
                 /\ UNCHANGED <<stream_handlers, status, raised>>
       ELSE CompletionTail(m, calls)
    /\ UNCHANGED <<handlers, error_callback, last_on_error, codec,
                   sent, issued, scopes, fired, idx>>

\* await self._error_callback(message) returns.
ErrorCallbackReturn ==
    /\ pc = "error_callback"
    /\ UNCHANGED <<cur, nmsgs, mark, known, pending>>
    /\ CompletionTail(cur, Append(calls, ErrorCallbackReturnEv(calls[Len(calls)].cb, cur)))
    /\ UNCHANGED <<handlers, error_callback, last_on_error, codec,
                   sent, issued, scopes, fired, idx>>

\* The first entry of fired_handlers that fails
\* `assert isinstance(handler, StreamHandler)`, 0 when none does.
FirstNotStream(fh) ==
    IF \E k \in 1..Len(fh) : fh[k].kind # "StreamHandler"
    THEN CHOOSE k \in 1..Len(fh) :
            /\ fh[k].kind # "StreamHandler"
            /\ \A j \in 1..(k - 1) : fh[j].kind = "StreamHandler"
    ELSE 0

\* _on_stream_item_message
OnStreamItem(m) ==
    /\ m.type = "StreamItem"
    /\ Take(m)
    /\ LET fired_handlers == FiredStreamHandlers(stream_handlers, m.invocation_id)
           bad == FirstNotStream(fired_handlers)
       IN IF bad = 0
          THEN /\ calls' = calls \o MapSeq(LAMBDA h : NextCall(h, m), fired_handlers)
               /\ Return
          ELSE /\ calls' = calls \o MapSeq(LAMBDA h : NextCall(h, m),
                                            SubSeq(fired_handlers, 1, bad - 1))
               /\ Raise("AssertionError", None)
    /\ UNCHANGED <<handlers, stream_handlers, error_callback, last_on_error, codec,
                   sent, issued,
                   scopes, fired, idx>>

\* _on_cancel_invocation_message
OnCancelInvocation(m) ==
    /\ m.type = "CancelInvocation"
    /\ Take(m)
    /\ LET fired_handlers == FiredStreamHandlers(stream_handlers, m.invocation_id)
           bad == FirstNotStream(fired_handlers)
       IN IF bad = 0
          THEN /\ calls' = calls \o MapSeq(LAMBDA h : ErrorCall(h, m), fired_handlers)
               /\ stream_handlers' = Unregister(stream_handlers, m.invocation_id)
               /\ Return
          ELSE /\ calls' = calls \o MapSeq(LAMBDA h : ErrorCall(h, m),
                                            SubSeq(fired_handlers, 1, bad - 1))
               /\ Raise("AssertionError", None)
               /\ UNCHANGED stream_handlers
    /\ UNCHANGED <<handlers, error_callback, last_on_error, codec,
                   sent, issued, scopes, fired, idx>>

\* The error of a Close is swallowed.
OnClose_Swallow(m) ==
    /\ m.type = "Close"
    /\ Take(m)
    /\ Return
    /\ UNCHANGED <<handlers, stream_handlers, error_callback, last_on_error, codec,
                   sent, issued,
                   scopes, fired, idx, calls>>

\* _on_close_message
OnClose(m) ==
    /\ m.type = "Close"
    /\ Take(m)
    /\ IF m.error # None
       THEN Raise("ServerError", m.error)
       ELSE Return
    /\ UNCHANGED <<handlers, stream_handlers, error_callback, last_on_error, codec,
                   sent, issued,
                   scopes, fired, idx, calls>>

(* ---------------------------- client_stream ---------------------------- *)
\* ClientStream.invoke: the StreamInvocation that opens the upload.
ClientStreamInvoke(i, target) == StreamInvocationMessage(i, target, None)
\* ClientStream.send: one uploaded item.
ClientStreamSend(i, item) == StreamItemMessage(i, item)
\* ClientStream.complete: the Completion that ends the upload.
ClientStreamComplete(i) == CompletionMessage(i, None)

\* client_stream up to its yield: ClientStream(...), await stream.invoke().
client_stream_enter(target) ==
    /\ status = "running"
    /\ \E i \in uuid4 :
        /\ issued' = issued \cup {i}
        /\ sent' = Append(sent, ClientStreamInvoke(i, target))
        /\ scopes' = [scopes EXCEPT ![i] = "open"]
    /\ UNCHANGED <<handlers, stream_handlers, error_callback, last_on_error, codec>>
    /\ UNCHANGED dispatch

\* The body of the `async with` pushes an item.
client_stream_send(i, item) ==
    /\ scopes[i] = "open"
    /\ Len(sent) < MaxSent
    /\ sent' = Append(sent, ClientStreamSend(i, item))
    /\ UNCHANGED <<handlers, stream_handlers, error_callback, last_on_error, codec,
                   issued, scopes>>
    /\ UNCHANGED dispatch

\* The body ends normally: the generator resumes after its yield and runs
\* await stream.complete().
client_stream_exit(i) ==
    /\ scopes[i] = "open"
    /\ sent' = Append(sent, ClientStreamComplete(i))
    /\ scopes' = [scopes EXCEPT ![i] = "completed"]
    /\ UNCHANGED <<handlers, stream_handlers, error_callback, last_on_error, codec,
                   issued>>
    /\ UNCHANGED dispatch

\* The body raises: the exception is thrown into the generator at its yield,
\* which no try/finally encloses, so the generator ends there.
client_stream_raise(i) ==
    /\ scopes[i] = "open"
    /\ scopes' = [scopes EXCEPT ![i] = "raised"]
    /\ UNCHANGED <<handlers, stream_handlers, error_callback, last_on_error, codec,
                   issued, sent>>
    /\ UNCHANGED dispatch

(* ---------------------------- the protocol object ------------------- *)
\* The JSON values whose texts arrive in payloads.
JsonValues ==
    {Dump(PingMessage), Dump(CompletionMessage("a", None)), EmptyObject,
     JsonNull,
     JsonObject({"target"}, 0, None, "Foo", None, None, None),
     JsonObject({"type"}, MessageType("Close") + 1, None, None, None, None, None)}

Segments == {record_separator, Junk} \cup {Text(v) : v \in JsonValues}

\* The messages a caller constructs and encodes.
Constructed ==
    Inbound
    \cup {InvocationMessage(i, method, a) :
             i \in Ids, method \in Methods, a \in Arguments}
    \cup {StreamInvocationMessage(i, method, a) :
             i \in Ids, method \in Methods, a \in Arguments}

client == <<handlers, stream_handlers, error_callback, sent, issued, scopes,
            last_on_error>>

\* The transport gives a payload to parse_raw_message.
Decode(raw) ==
    /\ raw_message' = raw
    /\ parsed' = parse_raw_message(raw)
    /\ UNCHANGED <<outgoing, wire>>
    /\ UNCHANGED <<client, dispatch>>

\* The transport gives a message to encode.
Encode(message) ==
    /\ outgoing' = message
    /\ wire' = encode(message)
    /\ UNCHANGED <<raw_message, parsed>>
    /\ UNCHANGED <<client, dispatch>>

\* What encode returned comes back as a payload.
Loopback ==
    /\ outgoing # NoMessage
    /\ Decode(wire)

(* ---------------------------- specifications --------------------------- *)
Register ==
    \E event \in Targets : on(event, Len(handlers) + 1)

SetErrorCallback ==
    \E callback \in ErrorCallbacks : on_error(callback)

Invoke ==
    \/ \E method \in Methods, on_invocation \in ResultCallbacks \cup {NoCallback} :
          send(method, "args1", on_invocation)
    \/ \E event \in Methods : stream(event, "args1")

Upload ==
    \/ \E target \in Methods : client_stream_enter(target)
    \/ \E i \in Ids, item \in Items : client_stream_send(i, item)
    \/ \E i \in Ids : client_stream_exit(i)
    \/ \E i \in Ids : client_stream_raise(i)

EventDispatch ==
    \/ \E m \in Inbound : OnInvocation(m)
    \/ HandlerReturn

RegistryDispatch ==
    \/ \E m \in Inbound : OnCompletion(m)
    \/ ErrorCallbackReturn
    \/ \E m \in Inbound : OnStreamItem(m)
    \/ \E m \in Inbound : OnCancelInvocation(m)

OtherDispatch ==
    \/ \E m \in Inbound : OnPing(m)
    \/ \E m \in Inbound : OnStreamInvocation(m)
    \/ \E m \in Inbound : OnClose(m)

\* Payloads of every length up to MaxPayload arrive, each one segment longer
\* than the one before.
Receive ==
    \E c \in Segments :
        /\ Len(raw_message) < MaxPayload
        /\ Decode(Append(raw_message, c))

Transmit == \E message \in Constructed : Encode(message)

Next ==
    \/ Register \/ SetErrorCallback \/ Invoke \/ Upload
    \/ EventDispatch \/ RegistryDispatch \/ OtherDispatch
    \/ Receive \/ Transmit \/ Loopback

Spec == Init /\ [][Next]_vars

\* The registry side: invocations, streams, the error callback and the
\* messages that refer to them by id (no event handler is registered).
NextRegistry ==
    \/ SetErrorCallback \/ Invoke \/ RegistryDispatch
    \/ \E m \in Inbound : OnInvocation(m)
SpecRegistry == Init /\ [][NextRegistry]_vars

\* The event side: handlers registered with on() and the messages that do
\* not refer to an invocation.
NextEvents == Register \/ EventDispatch \/ OtherDispatch
SpecEvents == Init /\ [][NextEvents]_vars

\* The upload scopes of client_stream.
NextUpload == Upload
SpecUpload == Init /\ [][NextUpload]_vars

\* Invocations sent without a result callback, next to subscriptions.
Forget == \E method \in Methods, arguments \in Arguments :
              send(method, arguments, NoCallback)
Subscribe == \E event \in Methods : stream(event, "args1")
NextForget == Forget \/ Subscribe \/ SetErrorCallback \/ RegistryDispatch
SpecForget == Init /\ [][NextForget]_vars

\* Pings arriving whatever is registered.
Pinged == \E m \in Inbound : OnPing(m)
NextPing == Register \/ SetErrorCallback \/ Invoke \/ Pinged
SpecPing == Init /\ [][NextPing]_vars

\* The protocol object, inbound: payloads decoded.
NextDecode == Receive
SpecDecode == Init /\ [][NextDecode]_vars

\* The protocol object, outbound: messages encoded, and decoded again.
NextEncode == Transmit \/ Loopback
SpecEncode == Init /\ [][NextEncode]_vars

(* ---------------------------- properties ------------------------------- *)
\* A step that takes a message from the transport, and a step in which the
\* dispatch of cur' ends.
Started == nmsgs' = nmsgs + 1
Ended == pc' = "idle" /\ (Started \/ pc # "idle")

\* The calls made so far by the dispatch of cur.
ThisDispatch == SubSeq(calls, mark + 1, Len(calls))

Count(s, P(_)) == Len(SelectSeq(s, P))

\* Positions of the registry entries of kind `kind` with id i.
EntriesOf(shs, kind, i) ==
    {k \in DOMAIN shs : shs[k].kind = kind /\ shs[k].invocation_id = i}
Registered(shs, i) == \E k \in DOMAIN shs : shs[k].invocation_id = i

\* Calls of the result callback given a Completion with id i.
ResultCalls(log, i) ==
    SelectSeq(log, LAMBDA e : e.fn = "on_invocation" /\ e.msg.invocation_id = i)
\* Calls of the callbacks of the stream subscription with id i.
StreamCalls(log, i) == SelectSeq(log, LAMBDA e : e.owner = i)

(* ---- C1 ---- *)
C1_Sent ==
    (/\ Len(stream_handlers') = Len(stream_handlers) + 1
     /\ stream_handlers'[Len(stream_handlers')].kind = "InvocationHandler")
    => /\ Len(sent') = Len(sent) + 1
       /\ sent'[Len(sent')].type = "Invocation"
       /\ sent'[Len(sent')].invocation_id =
             stream_handlers'[Len(stream_handlers')].invocation_id

C1_First ==
    (/\ Started
     /\ cur'.type = "Completion"
     /\ cur'.error = None
     /\ EntriesOf(stream_handlers, "InvocationHandler", cur'.invocation_id) # {})
    => /\ \E k \in EntriesOf(stream_handlers, "InvocationHandler", cur'.invocation_id) :
             calls' = Append(calls, Ev("on_invocation", None, stream_handlers[k].callback,
                                       "call", None, cur'))
       /\ ~Registered(stream_handlers', cur'.invocation_id)

C1_Further ==
    (/\ Started
     /\ cur'.type = "Completion"
     /\ ~Registered(stream_handlers, cur'.invocation_id)
     /\ Len(ResultCalls(calls, cur'.invocation_id)) > 0)
    => /\ ResultCalls(calls', cur'.invocation_id) = ResultCalls(calls, cur'.invocation_id)
       /\ ~Registered(stream_handlers', cur'.invocation_id)

C1_Once ==
    \A i \in Ids :
        /\ Len(ResultCalls(calls, i))
              + Cardinality(EntriesOf(stream_handlers, "InvocationHandler", i)) <= 1
        /\ EntriesOf(stream_handlers, "InvocationHandler", i) # {}
              => \E k \in DOMAIN sent :
                    sent[k].type = "Invocation" /\ sent[k].invocation_id = i

\* C1: send with a callback hands the transport an Invocation with the id of
\* the entry it registers; when the first Completion for that id carries no
\* error it calls the callback once with that Completion and removes the
\* entry; the callback is never called twice for one id, and a Completion
\* for an id already completed calls it no more.
C1_SendCompletionOnce == []C1_Once /\ [][C1_Sent /\ C1_First /\ C1_Further]_vars

\* A second Completion for a completed invocation has been dispatched and
\* made no call.
C1_Witness ==
    /\ pc = "idle" /\ status = "running"
    /\ cur = CompletionMessage("a", None)
    /\ mark = Len(calls)
    /\ Len(ResultCalls(calls, "a")) = 1
    /\ ResultCalls(calls, "a")[1].msg.error = None
    /\ \E k \in DOMAIN sent : sent[k] = InvocationMessage("a", "Send", "args1")
    /\ ~Registered(stream_handlers, "a")

(* ---- C2 ---- *)
C2_Item ==
    (/\ Started
     /\ cur'.type = "StreamItem"
     /\ EntriesOf(stream_handlers, "StreamHandler", cur'.invocation_id) # {})
    => /\ calls' = Append(calls, Ev("next_callback", cur'.invocation_id, NoCallback,
                                    "call", cur'.item, NoMessage))
       /\ stream_handlers' = stream_handlers
       /\ status' = "running" /\ pc' = "idle"

C2_Complete ==
    (/\ Started
     /\ cur'.type = "Completion"
     /\ cur'.error = None
     /\ EntriesOf(stream_handlers, "StreamHandler", cur'.invocation_id) # {})
    => /\ calls' = Append(calls, Ev("complete_callback", cur'.invocation_id, NoCallback,
                                    "call", None, cur'))
       /\ ~Registered(stream_handlers', cur'.invocation_id)
       /\ status' = "running" /\ pc' = "idle"

C2_Stale ==
    (/\ Started
     /\ cur'.type = "StreamItem"
     /\ ~Registered(stream_handlers, cur'.invocation_id))
    => /\ calls' = calls
       /\ stream_handlers' = stream_handlers
       /\ status' = "running" /\ pc' = "idle"

\* The calls of one subscription are onNext calls followed by at most one
\* terminal call, after which the subscription is not registered.
C2_Shape ==
    \A i \in Ids :
        LET s == StreamCalls(calls, i) IN
        \A k \in DOMAIN s :
            s[k].fn # "next_callback"
                => k = Len(s) /\ ~Registered(stream_handlers, i)

\* C2: while a subscription is registered every StreamItem with its id makes
\* exactly one onNext call with that item, appended in arrival order; a
\* Completion without error then makes exactly one onComplete call and
\* unregisters it; afterwards a StreamItem with that id makes no call and
\* raises nothing.
C2_StreamLifecycle == []C2_Shape /\ [][C2_Item /\ C2_Complete /\ C2_Stale]_vars

\* One item, the Completion, then a stale item that made no call.
C2_Witness ==
    /\ pc = "idle" /\ status = "running"
    /\ cur \in {StreamItemMessage("a", it) : it \in Items}
    /\ mark = Len(calls)
    /\ Len(StreamCalls(calls, "a")) = 2
    /\ StreamCalls(calls, "a")[1].fn = "next_callback"
    /\ StreamCalls(calls, "a")[2].fn = "complete_callback"
    /\ StreamCalls(calls, "a")[2].msg.error = None

(* ---- C3 ---- *)
C3_NoCallback ==
    (/\ Started
     /\ cur'.type = "Completion"
     /\ cur'.error # None
     /\ error_callback = NoCallback)
    => /\ status' = "failed"
       /\ raised'.type = "ServerError"
       /\ calls' = calls

C3_WithCallback ==
    (/\ Started
     /\ cur'.type = "Completion"
     /\ cur'.error # None
     /\ error_callback # NoCallback)
    => /\ calls' = Append(calls, Ev("on_error", None, error_callback, "call", None, cur'))
       /\ status' = "running"

C3_Finish ==
    (/\ Ended
     /\ cur'.type = "Completion"
     /\ cur'.error # None
     /\ status' = "running")
    => Count(SubSeq(calls', mark' + 1, Len(calls')),
             LAMBDA e : e.fn = "on_error" /\ e.ev = "call") = 1

\* C3: a Completion with error and no error callback registered ends run()
\* with a ServerError and calls nothing; with an error callback registered it
\* calls that callback exactly once with the Completion and the session goes
\* on.
C3_ErrorCompletion == [][C3_NoCallback /\ C3_WithCallback /\ C3_Finish]_vars

(* ---- C4 ---- *)
\* C4: when the dispatch of a Completion with id i ends, whatever it carried
\* and whether or not an error callback is registered, no entry with id i is
\* left in the registry.
C4_CompletionRemoves ==
    [][(Ended /\ cur'.type = "Completion")
          => ~Registered(stream_handlers', cur'.invocation_id)]_vars

(* ---- C5 ---- *)
\* C5: every client_stream scope that has been left, normally or by an
\* exception of its body, has sent exactly one Completion with the id of its
\* StreamInvocation.
C5_UploadCompleted ==
    \A i \in Ids :
        scopes[i] \in {"completed", "raised"}
            => /\ Count(sent, LAMBDA m : m.type = "StreamInvocation"
                                          /\ m.invocation_id = i) = 1
               /\ Count(sent, LAMBDA m : m.type = "Completion"
                                          /\ m.invocation_id = i) = 1

(* ---- C7 ---- *)
C7_Cancel ==
    (/\ Started
     /\ cur'.type = "CancelInvocation"
     /\ EntriesOf(stream_handlers, "StreamHandler", cur'.invocation_id) # {})
    => /\ calls' = Append(calls, Ev("error_callback", cur'.invocation_id, NoCallback,
                                    "call", None, cur'))
       /\ ~Registered(stream_handlers', cur'.invocation_id)
       /\ status' = "running" /\ pc' = "idle"

C7_Cancelled ==
    \A i \in Ids :
        LET s == StreamCalls(calls, i) IN
        \A k \in DOMAIN s :
            s[k].fn = "error_callback"
                => /\ k = Len(s)
                   /\ \A j \in DOMAIN s : s[j].fn # "complete_callback"
                   /\ ~Registered(stream_handlers, i)

\* C7: a CancelInvocation for a registered subscription calls its onError
\* exactly once, never its onComplete, and unregisters it; no message with
\* that id calls any of its callbacks afterwards.
C7_CancelTerminates == []C7_Cancelled /\ [][C7_Cancel]_vars

\* A subscription was cancelled, and a later StreamItem with its id made no
\* call.
C7_Witness ==
    /\ pc = "idle" /\ status = "running"
    /\ cur \in {StreamItemMessage("a", it) : it \in Items}
    /\ mark = Len(calls)
    /\ Len(StreamCalls(calls, "a")) > 0
    /\ StreamCalls(calls, "a")[Len(StreamCalls(calls, "a"))].fn = "error_callback"

(* ---- C10 ---- *)
\* m refers to no live registry entry, or to an event without handler.
Unmatched(m) ==
    \/ /\ \/ m.type \in {"StreamItem", "CancelInvocation"}
          \/ m.type = "Completion" /\ m.error = None
       /\ ~Registered(stream_handlers, m.invocation_id)
    \/ /\ m.type = "Invocation"
       /\ \A k \in DOMAIN handlers : handlers[k][1] # m.target

\* C10: the dispatch of an unmatched Completion (without error), StreamItem
\* or CancelInvocation, or of an Invocation without handler, calls nothing,
\* raises nothing, changes neither the registry nor the handler list, and
\* leaves the session ready for the next message.
C10_UnmatchedIsNoOp ==
    [][(Started /\ Unmatched(cur'))
          => /\ calls' = calls
             /\ UNCHANGED <<handlers, stream_handlers, error_callback>>
             /\ status' = "running" /\ raised' = raised /\ pc' = "idle"]_vars

\* A CancelInvocation for an id never issued was dispatched while another
\* entry was registered.
C10_Witness ==
    /\ pc = "idle" /\ status = "running"
    /\ cur = CancelInvocationMessage("b")
    /\ mark = Len(calls)
    /\ "b" \notin issued
    /\ Registered(stream_handlers, "a")

(* ---- C6 ---- *)
RegisteredBefore == SubSeq(handlers, 1, known)

RECURSIVE CallAndReturn(_, _)
CallAndReturn(hs, m) ==
    IF hs = <<>> THEN <<>>
    ELSE <<Ev("handler", None, Head(hs)[2], "call", m.arguments, NoMessage),
           Ev("handler", None, Head(hs)[2], "return", None, NoMessage)>>
         \o CallAndReturn(Tail(hs), m)

\* C6: the calls made for an inbound Invocation are, in registration order,
\* one call with the message's arguments of each handler registered for its
\* target before the dispatch, each followed by its return before the next
\* call, and nothing else.
C6_HandlersInOrder ==
    cur.type = "Invocation"
        => LET expected ==
                   CallAndReturn(SelectSeq(RegisteredBefore,
                                           LAMBDA h : h[1] = cur.target), cur)
           IN IF pc = "idle"
              THEN ThisDispatch = expected
              ELSE /\ Len(ThisDispatch) % 2 = 1
                   /\ Len(ThisDispatch) <= Len(expected)
                   /\ ThisDispatch = SubSeq(expected, 1, Len(ThisDispatch))

\* Two handlers of the target were called and returned; a handler of another
\* event was registered too.
C6_Witness ==
    /\ pc = "idle"
    /\ cur = InvocationMessage(NoId, "Foo", "args2")
    /\ Len(ThisDispatch) = 4
    /\ \E k \in 1..known : handlers[k][1] = "Bar"

(* ---- C8 ---- *)
HandlerCalls(k) ==
    Count(ThisDispatch,
          LAMBDA e : e.fn = "handler" /\ e.ev = "call" /\ e.cb = handlers[k][2])

\* C8: whatever is registered while the handlers of an Invocation run, a
\* handler registered before the dispatch for its target is called at most
\* once, and exactly once when the dispatch has ended, and a handler
\* registered during or after the dispatch is not called for that message.
C8_SnapshotIteration ==
    cur.type = "Invocation"
        => \A k \in DOMAIN handlers :
              IF k <= known /\ handlers[k][1] = cur.target
              THEN HandlerCalls(k) <= 1 /\ (pc = "idle" => HandlerCalls(k) = 1)
              ELSE HandlerCalls(k) = 0

\* The last of two siblings runs, and a handler for the same event has been
\* registered since the dispatch began.
C8_Witness ==
    /\ pc = "handler"
    /\ cur.type = "Invocation"
    /\ known = 2 /\ Len(fired) = 2 /\ idx = 2
    /\ Len(handlers) = 3
    /\ handlers[3][1] = cur.target

(* ---- C9 ---- *)
C9_Close ==
    (Started /\ cur'.type = "Close")
    => /\ IF cur'.error # None
          THEN /\ status' = "failed"
               /\ raised' = [type |-> "ServerError", error |-> cur'.error]
          ELSE /\ status' = "running"
               /\ raised' = raised
       /\ calls' = calls
       /\ pc' = "idle"

C9_Stopped == status = "failed" => UNCHANGED <<status, raised, cur, nmsgs, calls>>

\* C9: a Close with error raises ServerError with that error, after which no
\* message is dispatched and the error stays the outcome of run(); a Close
\* without error raises nothing.
C9_CloseFatalOnlyWithError == [][C9_Close /\ C9_Stopped]_vars

\* run() has ended with the error of a Close.
C9_Witness ==
    /\ status = "failed"
    /\ cur = CloseMessage("boom")
    /\ raised = [type |-> "ServerError", error |-> "boom"]

(* ---- C11 ---- *)
\* The fragments of a payload that a separator follows, empty ones dropped.
Terminated(raw) ==
    LET pieces == Split(raw) IN
    SelectSeq(SubSeq(pieces, 1, Len(pieces) - 1), LAMBDA record : record # <<>>)

\* The message one record stands for.
RecordOk(record) ==
    /\ json_loads(record).ok
    /\ parse_message(json_loads(record).v).ok
RecordMessage(record) == parse_message(json_loads(record).v).messages[1]

\* C11: a payload that decodes yields one Message for each of its
\* separator-terminated records, in payload order, and nothing for what
\* follows its last separator.
C11_OnePerTerminatedRecord ==
    parsed.ok
        => LET records == Terminated(raw_message) IN
           /\ Len(parsed.messages) = Len(records)
           /\ \A k \in DOMAIN records :
                 /\ RecordOk(records[k])
                 /\ parsed.messages[k] = RecordMessage(records[k])

(* ---- C12 ---- *)
\* The non-empty fragments of a payload, terminated or not.
Fragments(raw) == SelectSeq(Split(raw), LAMBDA record : record # <<>>)

\* C12: a payload with a non-empty fragment that is no JSON, or is JSON
\* without a type among the known codes (the empty object included), fails
\* to decode with ProtocolDecodeError and yields no messages.
C12_BadFragmentFails ==
    (\E k \in DOMAIN Fragments(raw_message) : ~RecordOk(Fragments(raw_message)[k]))
        => /\ ~parsed.ok
           /\ parsed.exception = "ProtocolDecodeError"
           /\ parsed.messages = <<>>

C14_Slot == error_callback = last_on_error

C14_Call ==
    (/\ Started
     /\ cur'.type = "Completion"
     /\ cur'.error # None
     /\ last_on_error # NoCallback)
    => calls' = Append(calls, Ev("on_error", None, last_on_error, "call", None, cur'))

C14_Once ==
    (/\ Ended
     /\ cur'.type = "Completion"
     /\ cur'.error # None
     /\ status' = "running")
    => Count(SubSeq(calls', mark' + 1, Len(calls')),
             LAMBDA e : e.fn = "on_error" /\ e.ev = "call") = 1

\* C14: the slot holds the callback of the latest on_error call; a Completion
\* with error calls that callback, once, and no callback registered before
\* it.
C14_LastWriteWins == []C14_Slot /\ [][C14_Call /\ C14_Once]_vars

\* Callback 1 was registered and called for an earlier Completion; callback
\* 2 replaced it and is the only one called for this Completion.
C14_Witness ==
    /\ pc = "error_callback"
    /\ last_on_error = 2
    /\ mark = Len(calls) - 1
    /\ calls[Len(calls)] = Ev("on_error", None, 2, "call", None, cur)
    /\ \E k \in 1..mark : calls[k].fn = "on_error" /\ calls[k].cb = 1

(* ---- C15 ---- *)
C15_Send ==
    (/\ Len(sent') = Len(sent) + 1
     /\ sent'[Len(sent')].type = "Invocation")
    => UNCHANGED <<stream_handlers, handlers, error_callback, calls>>

C15_Completion ==
    (/\ Started
     /\ cur'.type = "Completion"
     /\ cur'.error = None
     /\ \E k \in DOMAIN sent : /\ sent[k].type = "Invocation"
                               /\ sent[k].invocation_id = cur'.invocation_id)
    => /\ calls' = calls
       /\ stream_handlers' = stream_handlers
       /\ status' = "running" /\ raised' = raised /\ pc' = "idle"

\* C15: a send without result callback registers nothing, and a Completion
\* without error for the id of its Invocation calls nothing, raises nothing
\* and leaves the registry as it is.
C15_FireAndForget == [][C15_Send /\ C15_Completion]_vars

\* The Completion for a fire-and-forget Invocation was dispatched while a
\* subscription was registered.
C15_Witness ==
    /\ pc = "idle" /\ status = "running"
    /\ cur = CompletionMessage("a", None)
    /\ mark = Len(calls)
    /\ \E k \in DOMAIN sent : sent[k].type = "Invocation" /\ sent[k].invocation_id = "a"
    /\ Registered(stream_handlers, "b")

(* ---- C16 ---- *)
\* C16: the dispatch of a Ping calls no callback, changes neither the
\* handler list, the registry nor the error-callback slot, sends nothing and
\* raises nothing.
C16_PingIsNoOp ==
    [][(Started /\ cur'.type = "Ping")
          => /\ calls' = calls
             /\ UNCHANGED <<handlers, stream_handlers, error_callback, sent>>
             /\ status' = "running" /\ raised' = raised /\ pc' = "idle"]_vars

\* A Ping was dispatched with a handler, a pending invocation, a
\* subscription and an error callback registered.
C16_Witness ==
    /\ pc = "idle" /\ status = "running"
    /\ cur = PingMessage
    /\ calls = <<>>
    /\ Len(handlers) > 0
    /\ error_callback # NoCallback
    /\ \E i \in Ids : EntriesOf(stream_handlers, "InvocationHandler", i) # {}
    /\ \E i \in Ids : EntriesOf(stream_handlers, "StreamHandler", i) # {}

(* ---- C17 ---- *)
\* C17: no two entries of the registry, pending invocations or
\* subscriptions, have the same invocation id.
C17_DistinctIds ==
    \A j, k \in DOMAIN stream_handlers :
        j # k => stream_handlers[j].invocation_id # stream_handlers[k].invocation_id

\* A pending invocation and a subscription are registered together.
C17_Witness ==
    /\ Len(stream_handlers) = 2
    /\ stream_handlers[1].kind = "InvocationHandler"
    /\ stream_handlers[2].kind = "StreamHandler"
    /\ {stream_handlers[1].invocation_id, stream_handlers[2].invocation_id} \subseteq issued

(* ---- C18 ---- *)
\* C18: no dispatch of a StreamItem or CancelInvocation fails the assertion
\* that the entries matching its id are stream subscriptions.
C18_AssertionsHold == raised.type # "AssertionError"

(* ---- C19 ---- *)
\* The step ends the dispatch of a Completion or CancelInvocation with id i.
Terminates(i) ==
    /\ Ended
    /\ cur'.type \in {"Completion", "CancelInvocation"}
    /\ cur'.invocation_id = i

\* Where entry h is in the registry s, 0 when it is not there.
Position(s, h) ==
    IF \E n \in DOMAIN s : s[n] = h THEN CHOOSE n \in DOMAIN s : s[n] = h ELSE 0

C19_Kept ==
    \A k \in DOMAIN stream_handlers :
        \/ Terminates(stream_handlers[k].invocation_id)
        \/ Position(stream_handlers', stream_handlers[k]) > 0

C19_Order ==
    \A j, k \in DOMAIN stream_handlers :
        (/\ j < k
         /\ Position(stream_handlers', stream_handlers[j]) > 0
         /\ Position(stream_handlers', stream_handlers[k]) > 0)
        => Position(stream_handlers', stream_handlers[j])
              < Position(stream_handlers', stream_handlers[k])

\* C19: an entry leaves the registry only in the step that ends the dispatch
\* of a Completion or CancelInvocation with its own id; every other entry,
\* one appended while that dispatch awaited the error callback included,
\* stays, and the entries that stay keep their order.
C19_OnlyTerminatedRemoved == [][C19_Kept /\ C19_Order]_vars

\* The one entry registered when the Completion arrived was completed and
\* removed; the entry appended while the error callback ran is still there.
C19_Witness ==
    /\ pc = "idle" /\ status = "running"
    /\ cur = CompletionMessage("a", "boom")
    /\ pending = 1
    /\ \E k \in DOMAIN ThisDispatch :
          ThisDispatch[k].fn \in {"on_invocation", "complete_callback"}
    /\ Len(stream_handlers) = 1
    /\ stream_handlers[1].invocation_id = "b"

(* ---- C20 ---- *)
\* The call of the completion callback of entry h with Completion m.
Completes(h, m) ==
    IF h.kind = "InvocationHandler"
    THEN Ev("on_invocation", None, h.callback, "call", None, m)
    ELSE Ev("complete_callback", h.invocation_id, NoCallback, "call", None, m)

C20_ErrorFirst ==
    (/\ Started
     /\ cur'.type = "Completion"
     /\ cur'.error # None
     /\ error_callback # NoCallback
     /\ Registered(stream_handlers, cur'.invocation_id))
    => /\ calls' = Append(calls, Ev("on_error", None, error_callback, "call", None, cur'))
       /\ pc' = "error_callback"
       /\ stream_handlers' = stream_handlers

C20_ThenComplete ==
    (/\ pc = "error_callback"
     /\ pc' = "idle"
     /\ Registered(stream_handlers, cur.invocation_id))
    => /\ \E k \in DOMAIN stream_handlers, c \in ErrorCallbacks :
             /\ stream_handlers[k].invocation_id = cur.invocation_id
             /\ SubSeq(calls', mark + 1, Len(calls'))
                   = <<Ev("on_error", None, c, "call", None, cur),
                       Ev("on_error", None, c, "return", None, cur),
                       Completes(stream_handlers[k], cur)>>
       /\ ~Registered(stream_handlers', cur.invocation_id)
       /\ cur' = cur /\ status' = "running"

\* C20: a Completion with error for a registered entry, with an error
\* callback registered, calls the error callback, waits for its return, then
\* calls the entry's completion callback once with the same Completion, and
\* the entry is removed when the dispatch ends.
C20_ErrorThenComplete == [][C20_ErrorFirst /\ C20_ThenComplete]_vars

\* The error callback and then the result callback were called for the
\* Completion with error of a pending invocation, which is gone.
C20_Witness ==
    /\ pc = "idle" /\ status = "running"
    /\ cur = CompletionMessage("a", "boom")
    /\ Len(ThisDispatch) = 3
    /\ ThisDispatch[1].fn = "on_error" /\ ThisDispatch[1].ev = "call"
    /\ ThisDispatch[2].fn = "on_error" /\ ThisDispatch[2].ev = "return"
    /\ ThisDispatch[3].fn = "on_invocation" /\ ThisDispatch[3].msg = cur
    /\ ~Registered(stream_handlers, "a")

====
